---- MODULE Spec2Model ----
(***************************************************************************)
(* Model of minesweeper.py: the Minesweeper board, the Sentence            *)
(* constraint and the MinesweeperAI knowledge base.                        *)
(*                                                                         *)
(* A cell is a pair <<i, j>>.  A Sentence is a record                      *)
(* [cells |-> set of cells, count |-> integer].  The knowledge base is the *)
(* list self.knowledge, a sequence of sentences.                           *)
(***************************************************************************)
EXTENDS Integers, Sequences, FiniteSets, TLC

VARIABLES
    height,      \* MinesweeperAI.height (= Minesweeper.height)
    width,       \* MinesweeperAI.width  (= Minesweeper.width)
    board,       \* Minesweeper.mines: the cells whose board[i][j] is True
    moves_made,  \* MinesweeperAI.moves_made
    mines,       \* MinesweeperAI.mines
    safes,       \* MinesweeperAI.safes
    knowledge,   \* MinesweeperAI.knowledge
    ncalls,      \* number of state-changing calls made so far
    last,        \* the last state-changing call: its name, its arguments and
                 \* the intermediate values of add_knowledge
    prev,        \* the state-changing call before it: its name and arguments
    ret,         \* the last query (make_safe_move, make_random_move,
                 \* is_mine, nearby_mines), its argument and the value it
                 \* returned, if no state-changing call came after
    gen          \* Minesweeper.__init__: where the constructor is and the
                 \* number of mines it was asked for

vars == <<height, width, board, moves_made, mines, safes, knowledge,
          ncalls, last, prev, ret, gen>>

-----------------------------------------------------------------------------
(* Bounds *)

\* Most state-changing calls (add_knowledge, mark_mine, mark_safe) an
\* arbitrary caller makes in a run.
MaxCalls == 3

\* Most cells revealed in a game.
MaxReveals == 4

\* Most state-changing calls before a move is asked for.
MaxMoveCalls == 2

\* Largest count handed to add_knowledge by an arbitrary caller.
MaxCount == 2

\* Largest number of mines a Minesweeper is asked for.
MaxMines == 7

\* How far beyond the grid, on either side, is_mine is asked.
MaxProbe == 2

\* The grid sizes <<height, width>> the objects are constructed with.
Grids == {<<1, 1>>, <<1, 2>>, <<2, 2>>, <<2, 3>>}

\* The grid sizes explored with every state-changing operation enabled.
SmallGrids == {<<1, 1>>, <<1, 2>>, <<2, 2>>}

\* Python's None.
None == <<>>

-----------------------------------------------------------------------------
(* Minesweeper *)

Cells(h, w) == (0 .. h - 1) \X (0 .. w - 1)

\* The 3x3 block range(cell[0]-1, cell[0]+2) x range(cell[1]-1, cell[1]+2).
Block(cell) == ((cell[1] - 1) .. (cell[1] + 1)) \X ((cell[2] - 1) .. (cell[2] + 1))

\* nearby_mines with the lower bounds check left out: self.board[i][j] with
\* a negative index reads the last row or column.
nearby_mines_no_lower_bound(h, w, b, cell) ==
    Cardinality({c \in Block(cell) :
                    /\ c # cell
                    /\ c[1] < h /\ c[2] < w
                    /\ <<c[1] % h, c[2] % w>> \in b})

\* Minesweeper.nearby_mines: count of mines in the block, the cell itself
\* skipped, out-of-bounds positions skipped.
nearby_mines(h, w, b, cell) ==
    Cardinality({c \in Block(cell) :
                    /\ c # cell
                    /\ 0 <= c[1] /\ c[1] < h /\ 0 <= c[2] /\ c[2] < w
                    /\ c \in b})

\* What a call does: it returns a value or it raises an exception.
Returns(value) == [returns |-> value]

Raises(exception) == [raises |-> exception]

\* Python's list indexing lst[i] of a list of n items: an index in
\* -n .. n-1 is taken modulo n, any other index raises IndexError.
Indexable(n, i) == -n <= i /\ i < n

\* Minesweeper.is_mine: self.board[i][j].
is_mine(h, w, b, cell) ==
    IF Indexable(h, cell[1]) /\ Indexable(w, cell[2])
    THEN Returns(<<cell[1] % h, cell[2] % w>> \in b)
    ELSE Raises("IndexError")

-----------------------------------------------------------------------------
(* Sentence *)

Sentence(cells, count) == [cells |-> cells, count |-> count]

\* known_mines with known_safes' condition.
known_mines_when_zero(s) == IF s.count = 0 THEN s.cells ELSE {}

known_mines(s) == IF Cardinality(s.cells) = s.count THEN s.cells ELSE {}

\* known_safes with known_mines' condition.
known_safes_when_full(s) == IF Cardinality(s.cells) = s.count THEN s.cells ELSE {}

known_safes(s) == IF s.count = 0 THEN s.cells ELSE {}

\* Sentence.mark_mine without the decrement of count.
Sentence_mark_mine_keep_count(s, cell) ==
    IF cell \in s.cells
    THEN [cells |-> s.cells \ {cell}, count |-> s.count]
    ELSE s

Sentence_mark_mine(s, cell) ==
    IF cell \in s.cells
    THEN [cells |-> s.cells \ {cell}, count |-> s.count - 1]
    ELSE s

\* Sentence.mark_safe with Sentence.mark_mine's body, the membership test lost.
Sentence_mark_safe_unguarded(s, cell) ==
    [cells |-> s.cells \ {cell}, count |-> s.count - 1]

Sentence_mark_safe(s, cell) ==
    IF cell \in s.cells
    THEN [cells |-> s.cells \ {cell}, count |-> s.count]
    ELSE s

\* `sentence in list`, decided by Sentence.__eq__ (same cells, same count).
Contains(list, s) ==
    \E k \in DOMAIN list : list[k].cells = s.cells /\ list[k].count = s.count

-----------------------------------------------------------------------------
(* MinesweeperAI: the object's fields as one record *)

AI == [moves_made |-> moves_made, mines |-> mines, safes |-> safes,
       knowledge |-> knowledge]

\* mark_mine that also withdraws the cell from the safe set.
mark_mine_exclusive(ai, cell) ==
    [ai EXCEPT !.mines = @ \cup {cell},
               !.safes = @ \ {cell},
               !.knowledge = [k \in DOMAIN @ |-> Sentence_mark_mine(@[k], cell)]]

mark_mine(ai, cell) ==
    [ai EXCEPT !.mines = @ \cup {cell},
               !.knowledge = [k \in DOMAIN @ |-> Sentence_mark_mine(@[k], cell)]]

mark_safe(ai, cell) ==
    [ai EXCEPT !.safes = @ \cup {cell},
               !.knowledge = [k \in DOMAIN @ |-> Sentence_mark_safe(@[k], cell)]]

\* for mine in mine_cells: self.mark_mine(mine)
RECURSIVE mark_mines(_, _)
mark_mines(ai, S) ==
    IF S = {} THEN ai
    ELSE LET c == CHOOSE x \in S : TRUE
         IN  mark_mines(mark_mine(ai, c), S \ {c})

\* for safe in safe_cells: self.mark_safe(safe)
RECURSIVE mark_safes(_, _)
mark_safes(ai, S) ==
    IF S = {} THEN ai
    ELSE LET c == CHOOSE x \in S : TRUE
         IN  mark_safes(mark_safe(ai, c), S \ {c})

\* Step 3: the in-bounds cells of the block, without the cell itself.
Neighbours(h, w, cell) ==
    {c \in Block(cell) :
        0 <= c[1] /\ c[1] < h /\ 0 <= c[2] /\ c[2] < w} \ {cell}

\* Steps 1-2 with self.safes.add(cell) in place of self.mark_safe(cell).
Step2_add_only(ai, cell) ==
    [ai EXCEPT !.moves_made = @ \cup {cell}, !.safes = @ \cup {cell}]

\* Steps 1-2: record the move, mark the cell safe unless already safe.
Step2(ai, cell) ==
    LET a1 == [ai EXCEPT !.moves_made = @ \cup {cell}]
    IN  IF cell \notin a1.safes THEN mark_safe(a1, cell) ELSE a1

\* Step 4 without `count -= 1` for the neighbours known to be mines.
NewSentence_keep_count(h, w, ai, cell, count) ==
    LET nb      == Neighbours(h, w, cell)
        removal == {n \in nb : n \in ai.mines \/ n \in ai.safes \/ n \in ai.moves_made}
    IN  Sentence(nb \ removal, count)

\* Steps 3-5: the sentence built from the unknown neighbours.
NewSentence(h, w, ai, cell, count) ==
    LET nb      == Neighbours(h, w, cell)
        inMines == {n \in nb : n \in ai.mines}
        removal == {n \in nb : n \in ai.mines \/ n \in ai.safes \/ n \in ai.moves_made}
    IN  Sentence(nb \ removal, count - Cardinality(inMines))

\* Step 5 without the test `sentence not in self.knowledge`.
Step5_always_append(h, w, ai, cell, count) ==
    [ai EXCEPT !.knowledge = Append(@, NewSentence(h, w, ai, cell, count))]

Step5(h, w, ai, cell, count) ==
    LET s == NewSentence(h, w, ai, cell, count)
    IN  IF ~Contains(ai.knowledge, s)
        THEN [ai EXCEPT !.knowledge = Append(@, s)]
        ELSE ai

\* Step 6: one scan collecting the certain cells, then the marking.
RECURSIVE CollectMines(_, _)
CollectMines(list, k) ==
    IF k > Len(list) THEN {}
    ELSE known_mines(list[k]) \cup CollectMines(list, k + 1)

\* The scan for safes looking at the newest sentence only.
CollectSafes_newest(list, k) ==
    IF Len(list) = 0 THEN {} ELSE known_safes(list[Len(list)])

RECURSIVE CollectSafes(_, _)
CollectSafes(list, k) ==
    IF k > Len(list) THEN {}
    ELSE known_safes(list[k]) \cup CollectSafes(list, k + 1)

\* Step 6 without the loop over safe_cells.
Step6_mines_only(ai) ==
    mark_mines(ai, CollectMines(ai.knowledge, 1))

Step6(ai) ==
    LET mine_cells == CollectMines(ai.knowledge, 1)
        safe_cells == CollectSafes(ai.knowledge, 1)
    IN  mark_safes(mark_mines(ai, mine_cells), safe_cells)

\* Step 7 without the test `new_s not in new`.
RECURSIVE Infer_no_dedup(_, _, _)
Infer_no_dedup(list, p, new) ==
    LET n == Len(list) IN
    IF p >= n * n THEN new
    ELSE LET s1 == list[(p \div n) + 1]
             s2 == list[(p % n) + 1]
         IN  IF \/ (s1.cells = s2.cells /\ s1.count = s2.count)
                \/ Cardinality(s1.cells) = 0
                \/ Cardinality(s2.cells) = 0
             THEN Infer_no_dedup(list, p + 1, new)
             ELSE IF s1.cells \subseteq s2.cells
             THEN LET new_s == Sentence(s2.cells \ s1.cells, s2.count - s1.count)
                  IN  IF ~Contains(list, new_s)
                      THEN Infer_no_dedup(list, p + 1, Append(new, new_s))
                      ELSE Infer_no_dedup(list, p + 1, new)
             ELSE Infer_no_dedup(list, p + 1, new)

\* Step 7 with the subset test the other way round:
\* s2.cells.issubset(s1.cells).
RECURSIVE Infer_superset(_, _, _)
Infer_superset(list, p, new) ==
    LET n == Len(list) IN
    IF p >= n * n THEN new
    ELSE LET s1 == list[(p \div n) + 1]
             s2 == list[(p % n) + 1]
         IN  IF \/ (s1.cells = s2.cells /\ s1.count = s2.count)
                \/ Cardinality(s1.cells) = 0
                \/ Cardinality(s2.cells) = 0
             THEN Infer_superset(list, p + 1, new)
             ELSE IF s2.cells \subseteq s1.cells
             THEN LET new_s == Sentence(s2.cells \ s1.cells, s2.count - s1.count)
                  IN  IF ~Contains(list, new_s) /\ ~Contains(new, new_s)
                      THEN Infer_superset(list, p + 1, Append(new, new_s))
                      ELSE Infer_superset(list, p + 1, new)
             ELSE Infer_superset(list, p + 1, new)

\* Step 7: the nested loop over (s1, s2); p numbers the pairs in loop order.
RECURSIVE Infer(_, _, _)
Infer(list, p, new) ==
    LET n == Len(list) IN
    IF p >= n * n THEN new
    ELSE LET s1 == list[(p \div n) + 1]
             s2 == list[(p % n) + 1]
         IN  IF \/ (s1.cells = s2.cells /\ s1.count = s2.count)
                \/ Cardinality(s1.cells) = 0
                \/ Cardinality(s2.cells) = 0
             THEN Infer(list, p + 1, new)
             ELSE IF s1.cells \subseteq s2.cells
             THEN LET new_s == Sentence(s2.cells \ s1.cells, s2.count - s1.count)
                  IN  IF ~Contains(list, new_s) /\ ~Contains(new, new_s)
                      THEN Infer(list, p + 1, Append(new, new_s))
                      ELSE Infer(list, p + 1, new)
             ELSE Infer(list, p + 1, new)

\* Step 7 without self.knowledge.extend(new).
Step7_forget(ai) == ai

Step7(ai) == [ai EXCEPT !.knowledge = @ \o Infer(@, 0, <<>>)]

\* Steps 1-6 of add_knowledge.
Marked(h, w, ai, cell, count) ==
    Step6(Step5(h, w, Step2(ai, cell), cell, count))

add_knowledge(h, w, ai, cell, count) == Step7(Marked(h, w, ai, cell, count))

\* The scan with the loops nested the other way round, k = j * height + i.
RECURSIVE SafeScan_by_columns(_, _, _, _)
SafeScan_by_columns(h, w, ai, k) ==
    IF k >= h * w THEN None
    ELSE LET c == <<k % h, k \div h>>
         IN  IF c \notin ai.moves_made /\ c \in ai.safes
             THEN c
             ELSE SafeScan_by_columns(h, w, ai, k + 1)

\* make_safe_move: row-major scan, k = i * width + j.
RECURSIVE SafeScan(_, _, _, _)
SafeScan(h, w, ai, k) ==
    IF k >= h * w THEN None
    ELSE LET c == <<k \div w, k % w>>
         IN  IF c \notin ai.moves_made /\ c \in ai.safes
             THEN c
             ELSE SafeScan(h, w, ai, k + 1)

make_safe_move(h, w, ai) == SafeScan(h, w, ai, 0)

\* The options without the test against self.mines.
Options_with_mines(h, w, ai) ==
    {c \in Cells(h, w) : c \notin ai.moves_made}

\* make_random_move: the cells random.choice may pick from.
Options(h, w, ai) ==
    {c \in Cells(h, w) : c \notin ai.moves_made /\ c \notin ai.mines}

-----------------------------------------------------------------------------
(* State machine *)

NoSentence == Sentence({}, 0)

Call(op, cell, count, sentence, kb6) ==
    [op |-> op, cell |-> cell, count |-> count, sentence |-> sentence, kb6 |-> kb6]

NoCall == Call("none", None, 0, NoSentence, <<>>)

Args(call) == [op |-> call.op, cell |-> call.cell, count |-> call.count]

Ret(op, arg, val) == [op |-> op, arg |-> arg, val |-> val]

NoRet == Ret("none", None, None)

\* The constructor has returned a board with the mines it was asked for.
Built(b) == [pc |-> "done", mines |-> Cardinality(b)]

InitAI ==
    /\ moves_made = {}
    /\ mines = {}
    /\ safes = {}
    /\ knowledge = <<>>
    /\ ncalls = 0
    /\ last = NoCall
    /\ prev = Args(NoCall)
    /\ ret = NoRet

\* MinesweeperAI(height, width) on its own: no mines on the board.
InitOn(grids) ==
    /\ \E g \in grids : height = g[1] /\ width = g[2]
    /\ board = {}
    /\ gen = Built(board)
    /\ InitAI

Init == InitOn(SmallGrids)

InitAdd == InitOn(Grids)

\* Minesweeper(height, width, mines) and MinesweeperAI(height, width).
InitGame ==
    /\ \E g \in Grids : height = g[1] /\ width = g[2]
    /\ board \in SUBSET Cells(height, width)
    /\ gen = Built(board)
    /\ InitAI

Store(ai) ==
    /\ moves_made' = ai.moves_made
    /\ mines' = ai.mines
    /\ safes' = ai.safes
    /\ knowledge' = ai.knowledge

Record(call) ==
    /\ last' = call
    /\ prev' = Args(last)
    /\ ret' = NoRet
    /\ ncalls' = ncalls + 1
    /\ UNCHANGED <<height, width, board, gen>>

DoAddKnowledge(cell, count) ==
    \E a6 \in {Marked(height, width, AI, cell, count)} :
    \E a7 \in {Step7(a6)} :
        /\ Store(a7)
        /\ Record(Call("add_knowledge", cell, count,
                       NewSentence(height, width, Step2(AI, cell), cell, count),
                       a6.knowledge))

\* add_knowledge(cell, count) from an arbitrary caller, who makes at most
\* n state-changing calls.
AddKnowledge(n) ==
    /\ ncalls < n
    /\ \E cell \in Cells(height, width), count \in 0 .. MaxCount :
          DoAddKnowledge(cell, count)

\* The game loop: a cell that is no mine is revealed and the board's
\* nearby_mines count for it is passed to add_knowledge.
Reveal ==
    /\ ncalls < MaxReveals
    /\ \E cell \in Cells(height, width) :
          /\ cell \notin board
          /\ DoAddKnowledge(cell, nearby_mines(height, width, board, cell))

MarkMine(n) ==
    /\ ncalls < n
    /\ \E cell \in Cells(height, width) :
          /\ \E a \in {mark_mine(AI, cell)} : Store(a)
          /\ Record(Call("mark_mine", cell, 0, NoSentence, <<>>))

MarkSafe(n) ==
    /\ ncalls < n
    /\ \E cell \in Cells(height, width) :
          /\ \E a \in {mark_safe(AI, cell)} : Store(a)
          /\ Record(Call("mark_safe", cell, 0, NoSentence, <<>>))

MakeSafeMove ==
    /\ ret' = Ret("make_safe_move", None, make_safe_move(height, width, AI))
    /\ UNCHANGED <<height, width, board, moves_made, mines, safes, knowledge,
                   ncalls, last, prev, gen>>

MakeRandomMove ==
    /\ LET options == Options(height, width, AI)
       IN  IF options # {}
           THEN \E c \in options : ret' = Ret("make_random_move", None, c)
           ELSE ret' = Ret("make_random_move", None, None)
    /\ UNCHANGED <<height, width, board, moves_made, mines, safes, knowledge,
                   ncalls, last, prev, gen>>

\* Minesweeper(height, width, mines) enters its placement loop with an
\* empty board (lines 12-23).
InitBoard ==
    /\ \E g \in Grids : height = g[1] /\ width = g[2]
    /\ board = {}
    /\ \E m \in 0 .. MaxMines : gen = [pc |-> "placing", mines |-> m]
    /\ InitAI

\* One iteration of the loop "while len(self.mines) != mines": a random
\* cell is drawn and becomes a mine unless it is one already.
PlaceMine ==
    /\ gen.pc = "placing"
    /\ Cardinality(board) # gen.mines
    /\ \E i \in 0 .. height - 1, j \in 0 .. width - 1 :
          board' = IF <<i, j>> \notin board THEN board \cup {<<i, j>>} ELSE board
    /\ UNCHANGED <<height, width, moves_made, mines, safes, knowledge,
                   ncalls, last, prev, ret, gen>>

\* The loop condition fails and the constructor returns.
Construct ==
    /\ gen.pc = "placing"
    /\ Cardinality(board) = gen.mines
    /\ gen' = [gen EXCEPT !.pc = "done"]
    /\ UNCHANGED <<height, width, board, moves_made, mines, safes, knowledge,
                   ncalls, last, prev, ret>>

\* The cells is_mine is asked about: the grid and MaxProbe positions beyond
\* it on every side.
Probes == ((0 - MaxProbe) .. (height - 1 + MaxProbe))
              \X ((0 - MaxProbe) .. (width - 1 + MaxProbe))

IsMine ==
    /\ gen.pc = "done"
    /\ \E cell \in Probes :
          ret' = Ret("is_mine", cell, is_mine(height, width, board, cell))
    /\ UNCHANGED <<height, width, board, moves_made, mines, safes, knowledge,
                   ncalls, last, prev, gen>>

NearbyMines ==
    /\ gen.pc = "done"
    /\ \E cell \in Cells(height, width) :
          ret' = Ret("nearby_mines", cell,
                     Returns(nearby_mines(height, width, board, cell)))
    /\ UNCHANGED <<height, width, board, moves_made, mines, safes, knowledge,
                   ncalls, last, prev, gen>>

\* A board is constructed and then queried.
NextBoard ==
    \/ PlaceMine
    \/ Construct
    \/ IsMine
    \/ NearbyMines

SpecBoard == InitBoard /\ [][NextBoard]_vars

\* An arbitrary caller of the knowledge base's state-changing operations.
Next ==
    \/ AddKnowledge(MaxCalls)
    \/ MarkMine(MaxCalls)
    \/ MarkSafe(MaxCalls)

Spec == Init /\ [][Next]_vars

\* A caller who only reports cells, with any counts.
NextAdd == AddKnowledge(MaxCalls)

SpecAdd == InitAdd /\ [][NextAdd]_vars

\* A game: cells that are no mines are revealed, safe moves are asked for.
NextGame ==
    \/ Reveal
    \/ MakeSafeMove

SpecGame == InitGame /\ [][NextGame]_vars

\* An arbitrary caller of every operation of the knowledge base.
NextMoves ==
    \/ AddKnowledge(MaxMoveCalls)
    \/ MarkMine(MaxMoveCalls)
    \/ MarkSafe(MaxMoveCalls)
    \/ MakeSafeMove
    \/ MakeRandomMove

SpecMoves == InitAdd /\ [][NextMoves]_vars

-----------------------------------------------------------------------------
(* Properties of the knowledge base in a game (SpecGame) *)

\* C1: in a game whose reports are true (only cells that are no mines are
\* revealed, each with the board's own count of adjacent mines), every cell
\* the knowledge base holds as a mine is a mine of the board, no cell it
\* holds as safe is a mine, and make_safe_move never returns a mine.
C1_Soundness ==
    /\ mines \subseteq board
    /\ safes \cap board = {}
    /\ (ret.op = "make_safe_move" /\ ret.val # None) => ret.val \notin board

\* A mine has been deduced and make_safe_move has returned a cell.
C1_Witness ==
    /\ ncalls >= 2
    /\ mines # {}
    /\ ret.op = "make_safe_move"
    /\ ret.val # None

\* C2: in a game whose reports are true, no cell is both in the known mines
\* and in the known safes.
C2_Disjoint == mines \cap safes = {}

\* Both sets are non-empty and a safe cell is known that was not revealed.
C2_Witness ==
    /\ ncalls >= 2
    /\ mines # {}
    /\ safes \ moves_made # {}

\* C7: in a game whose reports are true, every sentence of the knowledge
\* base, built, derived or shrunk, has 0 <= count <= |cells|.
C7_WellFormed ==
    \A k \in DOMAIN knowledge :
        /\ 0 <= knowledge[k].count
        /\ knowledge[k].count <= Cardinality(knowledge[k].cells)

\* Subset inference has appended a sentence, a mine has been marked in the
\* sentences, and an undecided sentence remains.
C7_Witness ==
    /\ Len(knowledge) > ncalls
    /\ mines # {}
    /\ \E k \in DOMAIN knowledge :
          /\ 0 < knowledge[k].count
          /\ knowledge[k].count < Cardinality(knowledge[k].cells)

-----------------------------------------------------------------------------
(* Properties of the state-changing operations under any caller (Spec) *)

\* C3: no call of add_knowledge, mark_mine or mark_safe removes a cell from
\* the known mines, the known safes or the moves made, and none makes the
\* list of sentences shorter.
C3_Monotone ==
    [][/\ moves_made \subseteq moves_made'
       /\ mines \subseteq mines'
       /\ safes \subseteq safes'
       /\ Len(knowledge) <= Len(knowledge')]_vars

\* A cell held safe has been marked as a mine, and a sentence has been
\* emptied but is still in the list.
C3_Witness ==
    /\ last.op = "mark_mine"
    /\ last.cell \in safes
    /\ \E k \in DOMAIN knowledge : knowledge[k].cells = {}

\* C5: add_knowledge(cell, 0), called in any state in which no neighbour of
\* the cell is a known mine, returns with every in-bounds neighbour of the
\* cell in the known safes.
C5_ZeroCountReveal ==
    [][(/\ last'.op = "add_knowledge"
        /\ ncalls' = ncalls + 1
        /\ last'.count = 0
        /\ Neighbours(height, width, last'.cell) \cap mines = {})
       => Neighbours(height, width, last'.cell) \subseteq safes']_vars

\* add_knowledge(cell, 0) has returned on a knowledge base that already held
\* sentences; no neighbour was a known mine and some neighbour was unknown.
C5_Witness ==
    /\ ncalls >= 2
    /\ last.op = "add_knowledge"
    /\ last.count = 0
    /\ last.sentence.count = 0
    /\ last.sentence.cells # {}
    /\ Neighbours(height, width, last.cell) \cap mines = {}
    /\ Neighbours(height, width, last.cell) \subseteq safes

\* The neighbours of a cell in none of the three sets.
Unknown(cell) == Neighbours(height, width, cell) \ (mines \cup safes \cup moves_made)

\* C6: when add_knowledge(cell, count) is called with count less the number
\* of neighbours already known mines equal to the non-zero number of
\* neighbours in none of the three sets, those neighbours are all known mines
\* when it returns; on a fresh 1x2 grid add_knowledge((0,0), 1) returns with
\* (0,1) a known mine.
C6_FullCountReveal ==
    [][/\ (/\ last'.op = "add_knowledge"
           /\ ncalls' = ncalls + 1
           /\ Unknown(last'.cell) # {}
           /\ last'.count
                - Cardinality(Neighbours(height, width, last'.cell) \cap mines)
              = Cardinality(Unknown(last'.cell)))
          => Unknown(last'.cell) \subseteq mines'
       /\ (/\ height = 1 /\ width = 2 /\ ncalls = 0
           /\ last'.op = "add_knowledge"
           /\ last'.cell = <<0, 0>> /\ last'.count = 1)
          => <<0, 1>> \in mines']_vars

\* A reveal whose count, less one neighbour already a known mine, equals the
\* number of unknown neighbours has returned, and they are known mines.
C6_Witness ==
    /\ last.op = "add_knowledge"
    /\ last.count > last.sentence.count
    /\ last.sentence.cells # {}
    /\ last.sentence.count = Cardinality(last.sentence.cells)
    /\ last.sentence.cells \subseteq mines

\* C10: mark_safe called a second time on the same cell changes nothing:
\* the known safes, the known mines, the moves made and every sentence are
\* as the first call left them.
C10_MarkSafeIdempotent ==
    [][(/\ last.op = "mark_safe"
        /\ last'.op = "mark_safe"
        /\ ncalls' = ncalls + 1
        /\ last'.cell = last.cell)
       => UNCHANGED <<moves_made, mines, safes, knowledge>>]_vars

\* mark_safe has been called twice in a row on a cell that a sentence of
\* the first reveal held.
C10_Witness ==
    /\ ncalls >= 3
    /\ last.op = "mark_safe"
    /\ prev.op = "mark_safe"
    /\ prev.cell = last.cell
    /\ last.cell \notin moves_made
    /\ \E c \in moves_made : last.cell \in Neighbours(height, width, c)
    /\ \E k \in DOMAIN knowledge : knowledge[k].cells # {}

-----------------------------------------------------------------------------
(* Subset inference inside add_knowledge (SpecAdd) *)

\* The pairs <<{A,B}=1, {A,B,C}=1>> among the sentences of a list.
SubsetPairs(list) ==
    {p \in {<<list[i], list[j]>> : i, j \in DOMAIN list} :
        /\ Cardinality(p[1].cells) = 2 /\ p[1].count = 1
        /\ Cardinality(p[2].cells) = 3 /\ p[2].count = 1
        /\ p[1].cells \subseteq p[2].cells}

\* C4 as stated: when the knowledge base holds {A,B,C}=1 and {A,B}=1 as
\* add_knowledge reaches its subset inference, {C}=0 is derived and C is a
\* known safe when that call returns.
C4_SafeOnReturn ==
    last.op = "add_knowledge" =>
        \A p \in SubsetPairs(last.kb6) :
            /\ Contains(knowledge, Sentence(p[2].cells \ p[1].cells, 0))
            /\ (p[2].cells \ p[1].cells) \subseteq safes

\* C4 amended: when the knowledge base holds {A,B,C}=1 and {A,B}=1 as
\* add_knowledge reaches its subset inference, the sentence {C}=0 is in the
\* knowledge base when that call returns, and C is a known safe when the
\* next add_knowledge call returns, whatever cell and count it is given.
C4_SafeAfterNextCall ==
    last.op = "add_knowledge" =>
        \A p \in SubsetPairs(last.kb6) :
            /\ Contains(knowledge, Sentence(p[2].cells \ p[1].cells, 0))
            /\ \A cell \in Cells(height, width), count \in 0 .. MaxCount :
                  (p[2].cells \ p[1].cells)
                      \subseteq add_knowledge(height, width, AI, cell, count).safes

\* add_knowledge has returned after its subset inference met such a pair,
\* the derived {C}=0 is in the knowledge base and C is not a known safe.
C4_Witness ==
    /\ last.op = "add_knowledge"
    /\ \E p \in SubsetPairs(last.kb6) :
          /\ Contains(knowledge, Sentence(p[2].cells \ p[1].cells, 0))
          /\ (p[2].cells \ p[1].cells) \cap safes = {}

-----------------------------------------------------------------------------
(* The move selectors (SpecMoves) *)

\* c1 comes no later than c2 in row-major order.
RowMajorLeq(c1, c2) == c1[1] < c2[1] \/ (c1[1] = c2[1] /\ c1[2] <= c2[2])

\* The cells known safe and not yet moved to.
SafeCandidates == {c \in Cells(height, width) : c \in safes /\ c \notin moves_made}

\* C8: make_safe_move returns the first cell in row-major order that is a
\* known safe and not a move made, returns None exactly when there is no
\* such cell, and changes none of the moves made, the known mines, the
\* known safes and the sentences.
C8_SafeMove ==
    [][(ret'.op = "make_safe_move" /\ ncalls' = ncalls) =>
          /\ UNCHANGED <<moves_made, mines, safes, knowledge>>
          /\ (ret'.val = None) <=> (SafeCandidates = {})
          /\ ret'.val # None =>
                /\ ret'.val \in SafeCandidates
                /\ \A c \in SafeCandidates : RowMajorLeq(ret'.val, c)]_vars

\* make_safe_move has returned a cell of the second row although a cell
\* further left is a candidate too, the cells of the first row being moves
\* made already or not known safe.
C8_Witness ==
    /\ ret.op = "make_safe_move"
    /\ ret.val # None
    /\ ret.val[1] = 1
    /\ \E c \in SafeCandidates : c[1] = 1 /\ c[2] > ret.val[2]
    /\ moves_made # {}

\* C9: make_random_move never returns a known mine or a move made, returns
\* a cell of the grid whenever some cell is neither, and returns None only
\* when every cell of the grid is a move made or a known mine.
C9_RandomMove ==
    ret.op = "make_random_move" =>
        /\ ret.val # None =>
              /\ ret.val \in Cells(height, width)
              /\ ret.val \notin mines
              /\ ret.val \notin moves_made
        /\ (\E c \in Cells(height, width) : c \notin mines /\ c \notin moves_made)
              => ret.val # None
        /\ ret.val = None => Cells(height, width) \subseteq (moves_made \cup mines)

\* make_random_move has returned a cell while the grid holds a known mine, a
\* move made and more than one cell to choose from.
C9_Witness ==
    /\ ret.op = "make_random_move"
    /\ ret.val # None
    /\ mines \ moves_made # {}
    /\ moves_made # {}
    /\ \E c \in Cells(height, width) :
          c # ret.val /\ c \notin mines /\ c \notin moves_made

-----------------------------------------------------------------------------
(* The mutations of a sentence, as mark_mine and mark_safe apply them (Spec) *)

\* C11: Sentence.mark_mine on a cell of the sentence removes exactly that
\* cell and lowers count by exactly 1; Sentence.mark_safe on a cell of the
\* sentence removes exactly that cell and keeps count; either one on a cell
\* the sentence does not hold leaves cells and count as they were.
C11_SentenceMutations ==
    [][(ncalls' = ncalls + 1 /\ last'.op \in {"mark_mine", "mark_safe"}) =>
          /\ Len(knowledge') = Len(knowledge)
          /\ \A k \in DOMAIN knowledge :
                IF last'.cell \in knowledge[k].cells
                THEN /\ knowledge'[k].cells = knowledge[k].cells \ {last'.cell}
                     /\ knowledge'[k].count =
                           IF last'.op = "mark_mine"
                           THEN knowledge[k].count - 1
                           ELSE knowledge[k].count
                ELSE /\ knowledge'[k].cells = knowledge[k].cells
                     /\ knowledge'[k].count = knowledge[k].count]_vars

\* mark_mine has acted on the one sentence of a first reveal, which held
\* the cell and still holds another.
C11_Witness ==
    /\ ncalls = 2
    /\ last.op = "mark_mine"
    /\ prev.op = "add_knowledge"
    /\ last.cell \in Neighbours(height, width, prev.cell)
    /\ Len(knowledge) = 1
    /\ knowledge[1].cells # {}
    /\ last.cell \notin knowledge[1].cells

-----------------------------------------------------------------------------
(* The board: construction and queries (SpecBoard) *)

\* C12: constructing Minesweeper(height, width, mines) with
\* mines > height * width fails; it neither produces a board nor runs
\* forever.  So such a constructor never returns a board and is never in
\* its placement loop with no cell left to place a mine on, from where
\* every iteration leaves the board as it is and the loop cannot end.
C12_RejectsOverfull ==
    gen.mines > height * width =>
        /\ gen.pc # "done"
        /\ gen.pc = "placing" => \E c \in Cells(height, width) : c \notin board

\* The cells at Chebyshev distance 1 of a cell.
Chebyshev(c, d) ==
    LET di == IF c[1] >= d[1] THEN c[1] - d[1] ELSE d[1] - c[1]
        dj == IF c[2] >= d[2] THEN c[2] - d[2] ELSE d[2] - c[2]
    IN  IF di >= dj THEN di ELSE dj

\* C13: for every board and every cell of the grid, nearby_mines returns
\* the number of mines at Chebyshev distance 1 of the cell inside the grid;
\* the cell itself is not counted even when it is a mine, and positions
\* outside the grid are not counted.
C13_NearbyMines ==
    ret.op = "nearby_mines" =>
        ret.val = Returns(Cardinality(
            {c \in Cells(height, width) :
                c \in board /\ Chebyshev(c, ret.arg) = 1}))

\* nearby_mines was asked about a mine that has a mine next to it.
C13_Witness ==
    /\ ret.op = "nearby_mines"
    /\ ret.arg \in board
    /\ ret.val = Returns(1)
    /\ Cardinality(board) >= 3

\* C14: is_mine on a cell outside the grid (row not in 0 .. height-1 or
\* column not in 0 .. width-1, negative coordinates included) raises an
\* error and returns no boolean.
C14_RejectsOutOfBounds ==
    (ret.op = "is_mine" /\ ret.arg \notin Cells(height, width)) =>
        ret.val \notin {Returns(TRUE), Returns(FALSE)}

-----------------------------------------------------------------------------
(* What one add_knowledge call leaves behind (SpecAdd) *)

\* A sentence with cells whose count tells what all of them are.
Conclusive(s) ==
    s.cells # {} /\ (s.count = 0 \/ s.count = Cardinality(s.cells))

\* C15: whenever add_knowledge returns, no sentence with cells has count 0
\* or count = |cells|: the single scan-and-mark pass leaves no direct
\* inference pending, also not in sentences the marking shrank or the
\* subset inference derived in that call.
C15_NoPendingInference ==
    last.op = "add_knowledge" =>
        \A k \in DOMAIN knowledge : ~Conclusive(knowledge[k])

\* C15, amended: the pass covers the sentences as they are when step 6
\* scans them, that is the sentences held before the call without the
\* revealed cell, and the sentence the call built.  Every cell of such a
\* sentence with count 0 is in safes, every cell of such a sentence with
\* count = |cells| is in mines, and no sentence holds these cells, when the
\* call returns.
C15_ScanMarksConclusive ==
    [][(ncalls' = ncalls + 1 /\ last'.op = "add_knowledge") =>
          LET cell    == last'.cell
              before  == {knowledge[k] : k \in DOMAIN knowledge}
              scanned == {IF cell \in safes THEN s
                          ELSE Sentence(s.cells \ {cell}, s.count) : s \in before}
                            \cup {last'.sentence}
          IN  \A s \in scanned :
                 Conclusive(s) =>
                    /\ s.count = 0 => s.cells \subseteq safes'
                    /\ s.count = Cardinality(s.cells) => s.cells \subseteq mines'
                    /\ \A k \in DOMAIN knowledge' :
                          knowledge'[k].cells \cap s.cells = {}]_vars

\* The call built a sentence with count 0 and marked its cells safe, which
\* shrank an older sentence to one that is left pending.
C15_Witness ==
    /\ last.op = "add_knowledge"
    /\ last.sentence.cells # {}
    /\ last.sentence.count = 0
    /\ last.sentence.cells \subseteq safes
    /\ \E k \in DOMAIN knowledge : Conclusive(knowledge[k])

\* C16: the sentence add_knowledge builds has as cells the neighbours of
\* the cell inside the grid, without the cell, minus the known mines, the
\* known safes and the moves made, all taken after the cell itself was
\* recorded as a move and as safe; its count is the count given minus the
\* number of neighbours that are known mines.  It is appended only if the
\* collection holds no sentence with the same cells and count at that moment.
C16_NewSentence ==
    [][(ncalls' = ncalls + 1 /\ last'.op = "add_knowledge") =>
          LET cell  == last'.cell
              nb    == {c \in Cells(height, width) : Chebyshev(c, cell) = 1}
              known == mines \cup (safes \cup {cell}) \cup (moves_made \cup {cell})
              s     == Sentence(nb \ known,
                                last'.count - Cardinality(nb \cap mines))
              held  == {IF cell \in safes THEN t
                        ELSE Sentence(t.cells \ {cell}, t.count) :
                            t \in {knowledge[k] : k \in DOMAIN knowledge}}
          IN  /\ last'.sentence = s
              /\ Len(last'.kb6) =
                    IF s \in held THEN Len(knowledge) ELSE Len(knowledge) + 1
              /\ s \notin held =>
                    last'.kb6[Len(last'.kb6)].cells \subseteq s.cells]_vars

\* A sentence was built next to a known mine, a known safe and a move made:
\* it has cells left, a lowered count, and was appended.
C16_Witness ==
    /\ last.op = "add_knowledge"
    /\ last.sentence.cells # {}
    /\ last.sentence.count < last.count
    /\ Cardinality(last.sentence.cells) + 2
          < Cardinality(Neighbours(height, width, last.cell))
    /\ Len(last.kb6) = 3

\* The differences subset inference draws from a list of sentences: one for
\* every ordered pair of sentences that differ, both with cells, the first
\* one's cells a subset of the second one's.
Differences(list) ==
    {Sentence(list[p[2]].cells \ list[p[1]].cells,
              list[p[2]].count - list[p[1]].count) :
        p \in {q \in (DOMAIN list) \X (DOMAIN list) :
                  /\ list[q[1]] # list[q[2]]
                  /\ list[q[1]].cells # {}
                  /\ list[q[2]].cells # {}
                  /\ list[q[1]].cells \subseteq list[q[2]].cells}}

\* C17: when add_knowledge returns, for every ordered pair (S1, S2) of
\* sentences that differ, both with cells, held after the marking step of
\* that call, with S1.cells a subset of S2.cells, the knowledge base holds
\* the sentence (S2.cells - S1.cells, S2.count - S1.count); and step 7
\* appends nothing but such differences, each at most once.
C17_SubsetInference ==
    last.op = "add_knowledge" =>
        LET n == Len(last.kb6)
        IN  /\ Len(knowledge) >= n
            /\ SubSeq(knowledge, 1, n) = last.kb6
            /\ \A d \in Differences(last.kb6) : Contains(knowledge, d)
            /\ \A k \in (n + 1) .. Len(knowledge) :
                  /\ knowledge[k] \in Differences(last.kb6)
                  /\ \A j \in 1 .. (k - 1) : knowledge[j] # knowledge[k]

\* Step 7 has appended two differences.
C17_Witness ==
    /\ last.op = "add_knowledge"
    /\ Len(knowledge) >= Len(last.kb6) + 2

\* C18: every cell of a sentence with cells and count 0 (count = |cells|)
\* held when one add_knowledge call returns is in safes (in mines) when the
\* next add_knowledge call returns, whatever cell and count that next call
\* is given.
C18_NextCallMarks ==
    (last.op = "add_knowledge" /\ \E k \in DOMAIN knowledge : Conclusive(knowledge[k])) =>
        \A cell \in Cells(height, width), count \in 0 .. MaxCount :
            \A a \in {add_knowledge(height, width, AI, cell, count)} :
                \A k \in DOMAIN knowledge :
                    Conclusive(knowledge[k]) =>
                        /\ knowledge[k].count = 0 =>
                              knowledge[k].cells \subseteq a.safes
                        /\ knowledge[k].count = Cardinality(knowledge[k].cells) =>
                              knowledge[k].cells \subseteq a.mines

\* C18, amended: the cells of a sentence with count 0 are in safes when the
\* next call returns, whatever that call is given; the cells of a sentence
\* with count = |cells| are in mines when the next call returns, whatever
\* count it is given, provided its cell is none of the sentence's cells.
C18_NextCallMarksOthers ==
    (last.op = "add_knowledge" /\ \E k \in DOMAIN knowledge : Conclusive(knowledge[k])) =>
        \A cell \in Cells(height, width), count \in 0 .. MaxCount :
            \A a \in {add_knowledge(height, width, AI, cell, count)} :
                \A k \in DOMAIN knowledge :
                    Conclusive(knowledge[k]) =>
                        /\ knowledge[k].count = 0 =>
                              knowledge[k].cells \subseteq a.safes
                        /\ (/\ knowledge[k].count = Cardinality(knowledge[k].cells)
                            /\ cell \notin knowledge[k].cells) =>
                              knowledge[k].cells \subseteq a.mines

\* A call has returned leaving a sentence that says its cells are safe and
\* a sentence that says its cells are mines.
C18_Witness ==
    /\ last.op = "add_knowledge"
    /\ \E k \in DOMAIN knowledge :
          Conclusive(knowledge[k]) /\ knowledge[k].count = 0
    /\ \E k \in DOMAIN knowledge :
          Conclusive(knowledge[k]) /\ knowledge[k].count > 0

-----------------------------------------------------------------------------
(* The sentences of the knowledge base *)

\* C19: from a fresh MinesweeperAI, after any sequence of add_knowledge,
\* mark_mine and mark_safe calls, no sentence holds a cell that is a known
\* mine or a known safe (Spec).
C19_OnlyUnknownCells ==
    \A k \in DOMAIN knowledge :
        knowledge[k].cells \cap (mines \cup safes) = {}

\* Three calls have been made, mines and safes are known and a sentence
\* still has cells.
C19_Witness ==
    /\ ncalls = 3
    /\ mines # {}
    /\ safes # {}
    /\ \E k \in DOMAIN knowledge : Cardinality(knowledge[k].cells) >= 2

\* C20: in every state reached from a fresh MinesweeperAI by add_knowledge
\* calls, no two entries of the knowledge base are equal in cells and
\* count, also after marking has shrunk sentences (SpecAdd).
C20_NoDuplicates ==
    \A j, k \in DOMAIN knowledge : j # k => knowledge[j] # knowledge[k]


\* C20, amended: no sentence is appended that equals an entry the knowledge
\* base holds at that moment.  The sentence a call builds is appended only
\* if it differs from every sentence held once the revealed cell is marked
\* safe, and every sentence step 7 appends differs from all entries before
\* it.  (Entries that marking shrinks afterwards can become equal.)
C20_NoDuplicateAppended ==
    [][(ncalls' = ncalls + 1 /\ last'.op = "add_knowledge") =>
          LET cell == last'.cell
              held == {IF cell \in safes THEN t
                       ELSE Sentence(t.cells \ {cell}, t.count) :
                           t \in {knowledge[k] : k \in DOMAIN knowledge}}
          IN  /\ Len(last'.kb6) > Len(knowledge) => last'.sentence \notin held
              /\ \A k \in (Len(last'.kb6) + 1) .. Len(knowledge') :
                    \A j \in 1 .. (k - 1) : knowledge'[j] # knowledge'[k]]_vars

\* Step 7 has appended a sentence to a knowledge base in which marking has
\* made two sentences with cells equal.
C20_Witness ==
    /\ last.op = "add_knowledge"
    /\ Len(knowledge) > Len(last.kb6)
    /\ \E j, k \in 1 .. Len(last.kb6) :
          j # k /\ knowledge[j] = knowledge[k] /\ knowledge[j].cells # {}

====
